---- MODULE Spec2Model ----
(***************************************************************************)
(* Inverted index construction (indexBuilder.py) and postfix Boolean query *)
(* evaluation over sorted posting lists (BooleanRetrieval.py).             *)
(*                                                                         *)
(* Python lists are sequences (list[k] in Python is seq[k+1] here), dicts  *)
(* are functions whose DOMAIN is the set of keys.  A document body is a    *)
(* sequence of one-character strings; an index term produced by the        *)
(* builder is such a sequence too.  Query words are atomic strings.        *)
(***************************************************************************)
EXTENDS Integers, Sequences, FiniteSets, TLC

VARIABLES
    pc,               \* position of the running operation
    \* ---- InvertedIndex (indexBuilder.py) ----
    docs,             \* the <DOC> records found by re.findall, in order
    doc_pos,          \* number of records the parse loop has consumed
    doc_num,          \* next document number to assign
    doc_id_to_docno,  \* self.doc_id_to_docno
    docno_to_doc_id,  \* self.docno_to_doc_id
    doc_text_map,     \* doc_text_map of _parse_documents
    num_documents,    \* self.num_documents
    temp_index,       \* temp_index of _build_index
    build_pos,        \* number of doc_text_map items the build loop has consumed
    index,            \* self.index
    \* ---- BooleanRetrieval.parse_and_execute_query ----
    query,            \* the words of the query string, as written
    tokens,           \* tokens after lower() and re.findall
    tok_pos,          \* number of tokens consumed
    stack,            \* the evaluation stack (last element = top)
    result,           \* the returned list
    \* ---- BooleanRetrieval._merge_two_lists called directly ----
    m_list1, m_list2, \* the two arguments
    m_op,             \* which of merge_and / merge_or / merge_not was called
    m_out,            \* the returned list
    m_exit,           \* the pointers (i, j) when the main loop ended
    \* ---- CollectionStatistics (collectionStatistics.py) ----
    index_order,      \* the terms of self.index.index in dict iteration order
    term_freq_list,   \* self.term_freq_list
    st_n, st_highest, \* the arguments of get_terms_by_doc_freq
    st_terms,         \* the list get_terms_by_doc_freq returned
    best_pair         \* what find_similar_freq_terms_same_docs returned

vars == <<pc, docs, doc_pos, doc_num, doc_id_to_docno, docno_to_doc_id,
          doc_text_map, num_documents, temp_index, build_pos, index,
          query, tokens, tok_pos, stack, result,
          m_list1, m_list2, m_op, m_out, m_exit,
          index_order, term_freq_list, st_n, st_highest, st_terms, best_pair>>

indexVars == <<docs, doc_pos, doc_num, doc_id_to_docno, docno_to_doc_id,
               doc_text_map, num_documents, temp_index, build_pos>>

queryVars == <<query, tokens, tok_pos, stack, result>>

mergeVars == <<m_list1, m_list2, m_op, m_out, m_exit>>

statVars == <<index_order, term_freq_list, st_n, st_highest, st_terms, best_pair>>

----------------------------------------------------------------------------
(* Bounds of the model *)

\* document IDs of the lists handed to the merge functions are in 1..MaxDocId
MaxDocId == 4

\* a query has at most MaxQueryLen words
MaxQueryLen == 5

\* the collection holds at most MaxDocs <DOC> records
MaxDocs == 3

\* a document body has at most MaxBodyLen characters
MaxBodyLen == 4

\* a small index handed to CollectionStatistics holds at most MaxStatTerms terms
MaxStatTerms == 3

\* ... whose posting lists hold document IDs in 1..MaxStatDocs
MaxStatDocs == 2

\* get_terms_by_doc_freq is called with n in 0..MaxStatN
MaxStatN == 4

----------------------------------------------------------------------------
(* Generic helpers *)

EmptyMap == [x \in {} |-> 0]

Range(s) == {s[k] : k \in DOMAIN s}

SetMax(S) == CHOOSE x \in S : \A y \in S : y <= x

SetMin(S) == CHOOSE x \in S : \A y \in S : x <= y

IsStrictAsc(s) == \A k \in 1..(Len(s) - 1) : s[k] < s[k + 1]

\* the ascending list of the elements of a finite set of integers
RECURSIVE SortedSeq(_)
SortedSeq(S) ==
    IF S = {} THEN <<>>
    ELSE LET m == SetMin(S) IN <<m>> \o SortedSeq(S \ {m})

AscLists(n) == {SortedSeq(S) : S \in SUBSET (1..n)}

RECURSIVE SeqsUpTo(_, _)
SeqsUpTo(S, n) ==
    IF n = 0 THEN {<<>>}
    ELSE LET shorter == SeqsUpTo(S, n - 1)
         IN  shorter \cup {Append(s, x) : s \in {t \in shorter : Len(t) = n - 1}, x \in S}

----------------------------------------------------------------------------
(* BooleanRetrieval._merge_two_lists and its three specialisations *)

\* the main while loop (lines 28-44); i and j count the consumed elements
RECURSIVE MergeLoop(_, _, _, _, _, _, _, _)
MergeLoop(list1, list2, i, j, res, keep_both, keep_left_only, keep_right_only) ==
    IF i < Len(list1) /\ j < Len(list2)
    THEN IF list1[i + 1] = list2[j + 1]
         THEN MergeLoop(list1, list2, i + 1, j + 1,
                        IF keep_both THEN Append(res, list1[i + 1]) ELSE res,
                        keep_both, keep_left_only, keep_right_only)
         ELSE IF list1[i + 1] < list2[j + 1]
         THEN MergeLoop(list1, list2, i + 1, j,
                        IF keep_left_only THEN Append(res, list1[i + 1]) ELSE res,
                        keep_both, keep_left_only, keep_right_only)
         ELSE MergeLoop(list1, list2, i, j + 1,
                        IF keep_right_only THEN Append(res, list2[j + 1]) ELSE res,
                        keep_both, keep_left_only, keep_right_only)
    ELSE [i |-> i, j |-> j, result |-> res]

\* a drain loop that forgets the remaining elements
DrainTailDropped(list, k, res) == res

\* the drain loops (lines 48-50 and 54-56): append list[k:] to the result
DrainTail(list, k, res) == res \o SubSeq(list, k + 1, Len(list))

merge_two_lists(list1, list2, keep_both, keep_left_only, keep_right_only) ==
    LET m  == MergeLoop(list1, list2, 0, 0, <<>>,
                        keep_both, keep_left_only, keep_right_only)
        r1 == IF keep_left_only THEN DrainTail(list1, m.i, m.result) ELSE m.result
        r2 == IF keep_right_only THEN DrainTail(list2, m.j, r1) ELSE r1
    IN  r2

\* the pointers (i, j) at the end of the main loop
MergeExit(list1, list2, keep_both, keep_left_only, keep_right_only) ==
    LET m == MergeLoop(list1, list2, 0, 0, <<>>,
                       keep_both, keep_left_only, keep_right_only)
    IN  <<m.i, m.j>>

merge_and(list1, list2) == merge_two_lists(list1, list2, TRUE, FALSE, FALSE)

\* a union written as a concatenation
merge_or_concat(list1, list2) == list1 \o list2

merge_or(list1, list2) == merge_two_lists(list1, list2, TRUE, TRUE, TRUE)

\* a difference with the operands exchanged
merge_not_swapped(list1, list2) == merge_two_lists(list2, list1, FALSE, TRUE, FALSE)

merge_not(list1, list2) == merge_two_lists(list1, list2, FALSE, TRUE, FALSE)

----------------------------------------------------------------------------
(* Values of the variables of an operation that is not running *)

IndexIdle ==
    /\ docs = <<>> /\ doc_pos = 0 /\ doc_num = 1
    /\ doc_id_to_docno = EmptyMap /\ docno_to_doc_id = EmptyMap
    /\ doc_text_map = EmptyMap /\ num_documents = 0
    /\ temp_index = EmptyMap /\ build_pos = 0

QueryIdle ==
    /\ query = <<>> /\ tokens = <<>> /\ tok_pos = 0
    /\ stack = <<>> /\ result = <<>>

MergeIdle ==
    /\ m_list1 = <<>> /\ m_list2 = <<>> /\ m_op = "none"
    /\ m_out = <<>> /\ m_exit = <<0, 0>>

\* find_similar_freq_terms_same_docs returning None
NoPair == [found |-> FALSE]

StatIdle ==
    /\ index_order = <<>> /\ term_freq_list = <<>>
    /\ st_n = 0 /\ st_highest = TRUE /\ st_terms = <<>>
    /\ best_pair = NoPair

----------------------------------------------------------------------------
(* Direct calls of merge_and / merge_or / merge_not on two sorted lists *)

InitMerge ==
    /\ pc = "merge_ready"
    /\ m_list1 \in AscLists(MaxDocId)
    /\ m_list2 \in AscLists(MaxDocId)
    /\ m_op = "none" /\ m_out = <<>> /\ m_exit = <<0, 0>>
    /\ index = EmptyMap
    /\ IndexIdle /\ QueryIdle /\ StatIdle

CallMergeAnd ==
    /\ pc = "merge_ready"
    /\ m_op' = "and"
    /\ m_out' = merge_and(m_list1, m_list2)
    /\ m_exit' = MergeExit(m_list1, m_list2, TRUE, FALSE, FALSE)
    /\ pc' = "merge_done"
    /\ UNCHANGED <<m_list1, m_list2, index, indexVars, queryVars, statVars>>

CallMergeOr ==
    /\ pc = "merge_ready"
    /\ m_op' = "or"
    /\ m_out' = merge_or(m_list1, m_list2)
    /\ m_exit' = MergeExit(m_list1, m_list2, TRUE, TRUE, TRUE)
    /\ pc' = "merge_done"
    /\ UNCHANGED <<m_list1, m_list2, index, indexVars, queryVars, statVars>>

CallMergeNot ==
    /\ pc = "merge_ready"
    /\ m_op' = "not"
    /\ m_out' = merge_not(m_list1, m_list2)
    /\ m_exit' = MergeExit(m_list1, m_list2, FALSE, TRUE, FALSE)
    /\ pc' = "merge_done"
    /\ UNCHANGED <<m_list1, m_list2, index, indexVars, queryVars, statVars>>

NextMerge == CallMergeAnd \/ CallMergeOr \/ CallMergeNot

SpecMerge == InitMerge /\ [][NextMerge]_vars

\* the elements of list from position k (0-based) on
TailSet(list, k) == {list[n] : n \in (k + 1)..Len(list)}

\* C4: for strictly ascending lists A and B, merge_and, merge_or and merge_not
\* return the ascending lists of the intersection, the union and the difference
\* A minus B; what the main loop left unread is kept by OR (both sides) and by
\* NOT (left side), and is absent from the result of AND and, for the right
\* side, from the result of NOT.
C4_MergeCorrect ==
    pc = "merge_done" =>
        LET A == Range(m_list1)
            B == Range(m_list2)
            tail1 == TailSet(m_list1, m_exit[1])
            tail2 == TailSet(m_list2, m_exit[2])
        IN  /\ m_exit[1] = Len(m_list1) \/ m_exit[2] = Len(m_list2)
            /\ m_op = "and" => /\ m_out = SortedSeq(A \cap B)
                               /\ (tail1 \cup tail2) \cap Range(m_out) = {}
            /\ m_op = "or"  => /\ m_out = SortedSeq(A \cup B)
                               /\ (tail1 \cup tail2) \subseteq Range(m_out)
            /\ m_op = "not" => /\ m_out = SortedSeq(A \ B)
                               /\ tail1 \subseteq Range(m_out)
                               /\ tail2 \cap Range(m_out) = {}

\* a NOT whose left list outlasts the right one, and lists of different lengths
C4_Witness ==
    /\ pc = "merge_done" /\ m_op = "not"
    /\ m_list1 = <<1, 3, 4>> /\ m_list2 = <<1, 2>>
    /\ m_exit = <<1, 2>> /\ m_out = <<3, 4>>

----------------------------------------------------------------------------
(* BooleanRetrieval.parse_and_execute_query *)

\* the words a query is written with: operators as the query files write
\* them, two indexed terms, one term absent from the index
QueryWords == {"AND", "OR", "NOT", "term1", "term2", "zzzznotfound"}

\* the indexes queries are evaluated against: the posting lists of term1, term2
SampleIndexes ==
    { [t \in {"term1", "term2"} |-> IF t = "term1" THEN <<1, 3, 5>> ELSE <<3, 5, 7>>],
      [t \in {"term1", "term2"} |-> IF t = "term1" THEN <<2>> ELSE <<1, 2, 4, 6>>] }

\* str.lower() on one word (line 88)
LowerWord(w) ==
    CASE w = "AND" -> "and"
      [] w = "OR"  -> "or"
      [] w = "NOT" -> "not"
      [] OTHER     -> w

\* lines 88-91: lowercase the query and split it into its words
Tokenize(q) == [k \in DOMAIN q |-> LowerWord(q[k])]

Pop(stk) == SubSeq(stk, 1, Len(stk) - 1)

Top(stk) == stk[Len(stk)]

\* an AND that consumes a lone operand
ApplyAndConsuming(stk) ==
    IF Len(stk) >= 2
    THEN Append(Pop(Pop(stk)), merge_and(Top(Pop(stk)), Top(stk)))
    ELSE <<>>

\* lines 98-107
ApplyAnd(stk) ==
    IF Len(stk) >= 2
    THEN LET right == Top(stk)
             left  == Top(Pop(stk))
         IN  Append(Pop(Pop(stk)), merge_and(left, right))
    ELSE stk

\* lines 109-118
ApplyOr(stk) ==
    IF Len(stk) >= 2
    THEN LET right == Top(stk)
             left  == Top(Pop(stk))
         IN  Append(Pop(Pop(stk)), merge_or(left, right))
    ELSE stk

\* lines 120-129
ApplyNot(stk) ==
    IF Len(stk) >= 2
    THEN LET right == Top(stk)
             left  == Top(Pop(stk))
         IN  Append(Pop(Pop(stk)), merge_not(left, right))
    ELSE stk

\* a lookup that answers every document for a term it does not know
LookupAllDocs(token) ==
    IF token \in DOMAIN index THEN index[token] ELSE <<1, 2, 3, 4, 5, 6, 7>>

\* self.index.index.get(token, []) (line 133)
Lookup(token) ==
    IF token \in DOMAIN index THEN index[token] ELSE <<>>

\* lines 137-140: stack[0] is the first list pushed that is still on the stack
ReturnValue(stk) == IF Len(stk) > 0 THEN stk[1] ELSE <<>>

InitQuery ==
    /\ pc = "query_start"
    /\ index \in SampleIndexes
    /\ query \in SeqsUpTo(QueryWords, MaxQueryLen)
    /\ tokens = <<>> /\ tok_pos = 0 /\ stack = <<>> /\ result = <<>>
    /\ IndexIdle /\ MergeIdle /\ StatIdle

ParseQuery ==
    /\ pc = "query_start"
    /\ tokens' = Tokenize(query)
    /\ tok_pos' = 0
    /\ stack' = <<>>
    /\ pc' = "eval"
    /\ UNCHANGED <<query, result, index, indexVars, mergeVars, statVars>>

NextToken == tokens[tok_pos + 1]

ProcessAnd ==
    /\ pc = "eval" /\ tok_pos < Len(tokens)
    /\ NextToken = "and"
    /\ stack' = ApplyAnd(stack)
    /\ tok_pos' = tok_pos + 1
    /\ UNCHANGED <<pc, query, tokens, result, index, indexVars, mergeVars, statVars>>

ProcessOr ==
    /\ pc = "eval" /\ tok_pos < Len(tokens)
    /\ NextToken = "or"
    /\ stack' = ApplyOr(stack)
    /\ tok_pos' = tok_pos + 1
    /\ UNCHANGED <<pc, query, tokens, result, index, indexVars, mergeVars, statVars>>

ProcessNot ==
    /\ pc = "eval" /\ tok_pos < Len(tokens)
    /\ NextToken = "not"
    /\ stack' = ApplyNot(stack)
    /\ tok_pos' = tok_pos + 1
    /\ UNCHANGED <<pc, query, tokens, result, index, indexVars, mergeVars, statVars>>

ProcessTerm ==
    /\ pc = "eval" /\ tok_pos < Len(tokens)
    /\ NextToken \notin {"and", "or", "not"}
    /\ stack' = Append(stack, Lookup(NextToken))
    /\ tok_pos' = tok_pos + 1
    /\ UNCHANGED <<pc, query, tokens, result, index, indexVars, mergeVars, statVars>>

ReturnResult ==
    /\ pc = "eval" /\ tok_pos = Len(tokens)
    /\ result' = ReturnValue(stack)
    /\ pc' = "done"
    /\ UNCHANGED <<query, tokens, tok_pos, stack, index, indexVars, mergeVars, statVars>>

NextQuery ==
    \/ ParseQuery
    \/ ProcessAnd
    \/ ProcessOr
    \/ ProcessNot
    \/ ProcessTerm
    \/ ReturnResult

SpecQuery == InitQuery /\ [][NextQuery]_vars

----------------------------------------------------------------------------
(* What a postfix expression denotes, read from its last token backwards *)

IsOp(t) == t \in {"and", "or", "not"}

\* every operator finds two operands and exactly one list remains at the end
RECURSIVE DepthOk(_, _, _)
DepthOk(toks, k, depth) ==
    IF k = Len(toks) THEN depth = 1
    ELSE IF IsOp(toks[k + 1])
         THEN depth >= 2 /\ DepthOk(toks, k + 1, depth - 1)
         ELSE DepthOk(toks, k + 1, depth + 1)

WellFormed(toks) == DepthOk(toks, 0, 0)

\* the set of documents of a term: empty for a term the index does not hold
TermSet(t) == IF t \in DOMAIN index THEN Range(index[t]) ELSE {}

\* first token of the sub-expression whose last token is toks[k]
RECURSIVE ExprStart(_, _)
ExprStart(toks, k) ==
    IF IsOp(toks[k]) THEN ExprStart(toks, ExprStart(toks, k - 1) - 1) ELSE k

\* set-algebra value of the sub-expression whose last token is toks[k]
RECURSIVE ExprValue(_, _)
ExprValue(toks, k) ==
    IF ~IsOp(toks[k]) THEN TermSet(toks[k])
    ELSE LET right == ExprValue(toks, k - 1)
             left  == ExprValue(toks, ExprStart(toks, k - 1) - 1)
         IN  CASE toks[k] = "and" -> left \cap right
               [] toks[k] = "or"  -> left \cup right
               [] toks[k] = "not" -> left \ right

\* C1: a well-formed postfix query returns the ascending list of the documents
\* in the set-algebra value of the expression, with and = intersection,
\* or = union and not = (operand pushed earlier) minus (operand pushed later).
C1_WellFormedValue ==
    (pc = "done" /\ WellFormed(tokens)) =>
        result = SortedSeq(ExprValue(tokens, Len(tokens)))

\* 'term1 term2 NOT' on term1 -> [1,3,5], term2 -> [3,5,7] has returned [1]
C1_Witness ==
    /\ pc = "done"
    /\ query = <<"term1", "term2", "NOT">>
    /\ index["term1"] = <<1, 3, 5>> /\ index["term2"] = <<3, 5, 7>>
    /\ result = <<1>>

\* C2: for every token sequence the returned value is the list on top of the
\* stack after all tokens are consumed, and [] when the stack is empty.
C2_ReturnsTopOfStack ==
    pc = "done" =>
        result = (IF Len(stack) > 0 THEN stack[Len(stack)] ELSE <<>>)

\* C3: an operator met with fewer than two lists on the stack leaves the stack
\* as it is and evaluation goes on with the next token; 'term1 AND' returns
\* the posting list of term1.
C3_UnderflowNoOp ==
    /\ [][(/\ pc = "eval" /\ tok_pos < Len(tokens)
           /\ IsOp(tokens[tok_pos + 1]) /\ Len(stack) < 2)
          => (stack' = stack /\ pc' = "eval" /\ tok_pos' = tok_pos + 1)]_vars
    /\ []((pc = "done" /\ tokens = <<"term1", "and">>) => result = index["term1"])

\* 'term1 AND' has been evaluated: the lone operand is still on the stack
C3_Witness ==
    /\ pc = "done"
    /\ query = <<"term1", "AND">>
    /\ stack = <<index["term1"]>>
    /\ result = index["term1"]

\* C9: every list on the evaluation stack, and the returned list, is strictly
\* ascending, for well-formed and malformed queries alike.
C9_StackAscending ==
    /\ \A k \in DOMAIN stack : IsStrictAsc(stack[k])
    /\ IsStrictAsc(result)

\* a malformed query has returned a merged list
C9_Witness ==
    /\ pc = "done"
    /\ ~WellFormed(tokens)
    /\ \E k \in DOMAIN tokens : tokens[k] = "or"
    /\ result = <<1, 3, 5, 7>>

\* C10: a term absent from the index pushes the empty list and acts as the
\* empty set: unknown AND X = [], unknown OR X = X, X NOT unknown = X,
\* unknown NOT X = [].
C10_UnknownTermIsEmpty ==
    /\ (/\ pc \in {"eval", "done"} /\ tok_pos >= 1
        /\ ~IsOp(tokens[tok_pos]) /\ tokens[tok_pos] \notin DOMAIN index)
       => (Len(stack) >= 1 /\ Top(stack) = <<>>)
    /\ (pc = "done" /\ Len(tokens) = 3) =>
         \A X \in DOMAIN index : \A u \in Range(tokens) \ (DOMAIN index \cup {"and", "or", "not"}) :
            /\ tokens = <<u, X, "and">> => result = <<>>
            /\ tokens = <<X, u, "and">> => result = <<>>
            /\ tokens = <<u, X, "or">>  => result = index[X]
            /\ tokens = <<X, u, "or">>  => result = index[X]
            /\ tokens = <<X, u, "not">> => result = index[X]
            /\ tokens = <<u, X, "not">> => result = <<>>

\* 'zzzznotfound term1 AND' has returned []
C10_Witness ==
    /\ pc = "done"
    /\ query = <<"zzzznotfound", "term1", "AND">>
    /\ index["term1"] # <<>>
    /\ result = <<>>

----------------------------------------------------------------------------
(* Text of the collection: characters, lower(), strip(), the word regex *)

\* one character of each class the tokenizer tells apart: an ASCII lowercase
\* letter, an ASCII uppercase letter, a digit, the underscore, a non-ASCII
\* letter, and a separator (blank)
Chars == {"a", "B", "7", "_", "eacute", " "}

\* str.lower() on one character
LowerChar(c) == IF c = "B" THEN "b" ELSE c

\* text.lower() (line 97)
Lower(text) == [k \in DOMAIN text |-> LowerChar(text[k])]

\* str.strip() (lines 64 and 73): drop leading and trailing white space
RECURSIVE Strip(_)
Strip(text) ==
    IF text = <<>> THEN <<>>
    ELSE IF text[1] = " " THEN Strip(Tail(text))
    ELSE IF text[Len(text)] = " " THEN Strip(SubSeq(text, 1, Len(text) - 1))
    ELSE text

\* the class [a-z0-9]
IsTermChar(c) == c \in {"a", "b", "7"}

\* the class \w of a str pattern: letters of any script, digits, underscore
IsWordChar(c) == c \in {"a", "b", "B", "7", "_", "eacute"}

\* is there a word character at offset p (1-based); none outside the text
WordAt(text, p) == p >= 1 /\ p <= Len(text) /\ IsWordChar(text[p])

\* a pattern without the \b assertions
NoBoundaryCheck(text, p) == TRUE

\* \b between the characters at 0-based offsets p-1 and p
IsBoundary(text, p) == WordAt(text, p) # WordAt(text, p + 1)

\* greedy [a-z0-9]+ from 0-based offset s: offset after the longest run
RECURSIVE RunEnd(_, _)
RunEnd(text, s) ==
    IF s < Len(text) /\ IsTermChar(text[s + 1]) THEN RunEnd(text, s + 1) ELSE s

\* \b[a-z0-9]+\b tried at offset s: the end offset of the match, or -1.
\* The run is taken as long as possible and given back one character at a
\* time until \b holds at its end.
MatchAt(text, s) ==
    IF ~IsBoundary(text, s) THEN -1
    ELSE LET ends == {e \in (s + 1)..RunEnd(text, s) : IsBoundary(text, e)}
         IN  IF ends = {} THEN -1 ELSE SetMax(ends)

\* re.findall: scan from left to right, resume after each match
RECURSIVE FindAll(_, _, _)
FindAll(text, pos, words) ==
    IF pos >= Len(text) THEN words
    ELSE LET e == MatchAt(text, pos)
         IN  IF e = -1 THEN FindAll(text, pos + 1, words)
             ELSE FindAll(text, e, Append(words, SubSeq(text, pos + 1, e)))

\* re.findall(r'\b[a-z0-9]+\b', text.lower()) (line 97)
Words(text) == FindAll(Lower(text), 0, <<>>)

----------------------------------------------------------------------------
(* InvertedIndex._parse_documents and _build_index *)

\* identifiers as they stand between the <DOCNO> tags
RawDocNos == {"D1", " D1 ", "D2"}

\* docno_match.group(1).strip() (line 64)
StripDocno(raw) == IF raw = " D1 " THEN "D1" ELSE raw

\* a record without <DOCNO>; it does have a body
NoDocnoRecord ==
    [has_docno |-> FALSE, docno |-> "", has_text |-> TRUE, text |-> <<"a">>]

\* a record with identifier raw and no <TEXT>
NoTextRecord(raw) ==
    [has_docno |-> TRUE, docno |-> raw, has_text |-> FALSE, text |-> <<>>]

\* a record with identifier raw and body text
Record(raw, text) ==
    [has_docno |-> TRUE, docno |-> raw, has_text |-> TRUE, text |-> text]

\* bodies of the sample collection: empty, blank, one word, two words, one
\* word twice
SampleBodies == {<<>>, <<"a">>, <<"a", " ", "B">>, <<"B", " ", "b">>}

SampleRecords ==
    {NoDocnoRecord}
        \cup {NoTextRecord(raw) : raw \in RawDocNos}
        \cup {Record(raw, text) : raw \in RawDocNos, text \in SampleBodies}

\* dict[key] = value
SetItem(map, key, value) ==
    [k \in DOMAIN map \cup {key} |-> IF k = key THEN value ELSE map[k]]

\* an identifier -> ID dict that keeps the first ID of an identifier
RecordDocnoKeepFirst(map, docno, num) ==
    IF docno \in DOMAIN map THEN map ELSE SetItem(map, docno, num)

\* self.docno_to_doc_id[docno] = doc_num (line 68)
RecordDocno(map, docno, num) == SetItem(map, docno, num)

\* the count taken from the next number to assign
NumDocumentsFromCounter == doc_num

\* len(self.doc_id_to_docno) (line 78)
NumDocuments == Cardinality(DOMAIN doc_id_to_docno)

\* a build loop that appends the document once per occurrence of a word
RECURSIVE AddPostingsNoDedup(_, _, _)
AddPostingsNoDedup(temp, words, doc_id) ==
    IF words = <<>> THEN temp
    ELSE LET w == Head(words)
             old == IF w \in DOMAIN temp THEN temp[w] ELSE <<>>
         IN  AddPostingsNoDedup(SetItem(temp, w, Append(old, doc_id)), Tail(words), doc_id)

\* lines 100-104: unique_words = set(words); append doc_id to each word's list
AddPostings(temp, words, doc_id) ==
    LET unique_words == Range(words)
    IN  [w \in DOMAIN temp \cup unique_words |->
            IF w \in unique_words
            THEN Append(IF w \in DOMAIN temp THEN temp[w] ELSE <<>>, doc_id)
            ELSE temp[w]]

\* sorted(doc_list) (line 109)
RECURSIVE Sorted(_)
Sorted(list) ==
    IF list = <<>> THEN <<>>
    ELSE LET m == SetMin(Range(list))
             k == SetMin({n \in DOMAIN list : list[n] = m})
         IN  <<m>> \o Sorted(SubSeq(list, 1, k - 1) \o SubSeq(list, k + 1, Len(list)))

\* doc_text_map.items() in dict order: keys are inserted in increasing order
TextItems == SortedSeq(DOMAIN doc_text_map)

IndexStart ==
    /\ pc = "parse"
    /\ doc_pos = 0 /\ doc_num = 1
    /\ doc_id_to_docno = EmptyMap /\ docno_to_doc_id = EmptyMap
    /\ doc_text_map = EmptyMap /\ num_documents = 0
    /\ temp_index = EmptyMap /\ build_pos = 0
    /\ index = EmptyMap
    /\ QueryIdle /\ MergeIdle /\ StatIdle

\* a collection of up to MaxDocs records
InitIndex ==
    /\ docs \in SeqsUpTo(SampleRecords, MaxDocs)
    /\ IndexStart

\* a collection of one document with any body of up to MaxBodyLen characters,
\* alone or after a record without identifier
InitBody ==
    /\ \E text \in SeqsUpTo(Chars, MaxBodyLen) :
          docs \in {<<Record("D1", text)>>, <<NoDocnoRecord, Record("D1", text)>>}
    /\ IndexStart

\* lines 59-75 for a record with a <DOCNO>
ParseRecord ==
    /\ pc = "parse" /\ doc_pos < Len(docs)
    /\ docs[doc_pos + 1].has_docno
    /\ LET rec   == docs[doc_pos + 1]
           docno == StripDocno(rec.docno)
       IN  /\ doc_id_to_docno' = SetItem(doc_id_to_docno, doc_num, docno)
           /\ docno_to_doc_id' = RecordDocno(docno_to_doc_id, docno, doc_num)
           /\ doc_text_map' = IF rec.has_text
                              THEN SetItem(doc_text_map, doc_num, Strip(rec.text))
                              ELSE doc_text_map
    /\ doc_num' = doc_num + 1
    /\ doc_pos' = doc_pos + 1
    /\ UNCHANGED <<pc, docs, num_documents, temp_index, build_pos, index,
                   queryVars, mergeVars, statVars>>

\* lines 61-63 for a record without <DOCNO>: continue
SkipRecord ==
    /\ pc = "parse" /\ doc_pos < Len(docs)
    /\ ~docs[doc_pos + 1].has_docno
    /\ doc_pos' = doc_pos + 1
    /\ UNCHANGED <<pc, docs, doc_num, doc_id_to_docno, docno_to_doc_id,
                   doc_text_map, num_documents, temp_index, build_pos, index,
                   queryVars, mergeVars, statVars>>

\* lines 77-79 and 92: the parse loop is over
FinishParse ==
    /\ pc = "parse" /\ doc_pos = Len(docs)
    /\ num_documents' = NumDocuments
    /\ temp_index' = EmptyMap
    /\ build_pos' = 0
    /\ pc' = "build"
    /\ UNCHANGED <<docs, doc_pos, doc_num, doc_id_to_docno, docno_to_doc_id,
                   doc_text_map, index, queryVars, mergeVars, statVars>>

\* lines 95-104 for one document
BuildDocument ==
    /\ pc = "build" /\ build_pos < Len(TextItems)
    /\ LET doc_id == TextItems[build_pos + 1]
           text   == doc_text_map[doc_id]
       IN  temp_index' = AddPostings(temp_index, Words(text), doc_id)
    /\ build_pos' = build_pos + 1
    /\ UNCHANGED <<pc, docs, doc_pos, doc_num, doc_id_to_docno, docno_to_doc_id,
                   doc_text_map, num_documents, index, queryVars, mergeVars, statVars>>

\* lines 106-109
SortIndex ==
    /\ pc = "build" /\ build_pos = Len(TextItems)
    /\ index' = [word \in DOMAIN temp_index |-> Sorted(temp_index[word])]
    /\ pc' = "built"
    /\ UNCHANGED <<docs, doc_pos, doc_num, doc_id_to_docno, docno_to_doc_id,
                   doc_text_map, num_documents, temp_index, build_pos,
                   queryVars, mergeVars, statVars>>

NextIndex ==
    \/ ParseRecord
    \/ SkipRecord
    \/ FinishParse
    \/ BuildDocument
    \/ SortIndex

SpecIndex == InitIndex /\ [][NextIndex]_vars

SpecBody == InitBody /\ [][NextIndex]_vars

----------------------------------------------------------------------------
(* Properties of the built index *)

\* the records of the collection that carry an identifier, in order
Accepted(records) == SelectSeq(records, LAMBDA r : r.has_docno)

\* the terms whose posting list holds document d
IndexedTerms(d) == {t \in DOMAIN index : d \in Range(index[t])}

\* the maximal runs of characters of class InClass in text
MaximalRuns(text, InClass(_)) ==
    {SubSeq(text, s, e) : <<s, e>> \in
        {r \in (1..Len(text)) \X (1..Len(text)) :
            /\ r[1] <= r[2]
            /\ \A k \in r[1]..r[2] : InClass(text[k])
            /\ r[1] = 1 \/ ~InClass(text[r[1] - 1])
            /\ r[2] = Len(text) \/ ~InClass(text[r[2] + 1])}}

\* the body of the one document of a SpecBody collection
TheBody == docs[Len(docs)].text

\* C5: in the built index every posting list is strictly ascending and every
\* ID in it lies in 1..num_documents.
C5_PostingsSortedInRange ==
    pc = "built" =>
        \A t \in DOMAIN index :
            /\ IsStrictAsc(index[t])
            /\ Range(index[t]) \subseteq 1..num_documents

\* an index with a posting list of several documents, one of which repeats
\* the word, built from a collection with a repeated identifier
C5_Witness ==
    /\ pc = "built"
    /\ Len(docs) = 3
    /\ \A k \in 1..3 : docs[k].has_docno /\ docs[k].text = <<"B", " ", "b">>
    /\ Cardinality(DOMAIN docno_to_doc_id) < 3
    /\ index[<<"b">>] = <<1, 2, 3>>

\* C6 as stated: the terms indexed for a document are exactly the maximal runs
\* of [a-z0-9] in the lowercased body, every other character being a separator.
C6_TermsAreMaximalRuns ==
    pc = "built" => IndexedTerms(1) = MaximalRuns(Lower(TheBody), IsTermChar)

\* C6 amended: the terms indexed for a document are exactly the words of the
\* lowercased body (maximal runs of letters of any script, digits and
\* underscore) that consist of characters [a-z0-9] only.
C6_TermsAreAsciiWords ==
    pc = "built" =>
        IndexedTerms(1) =
            {w \in MaximalRuns(Lower(TheBody), IsWordChar) :
                \A k \in DOMAIN w : IsTermChar(w[k])}

\* the body 'a_ B': 'a' touches an underscore and is not indexed, 'b' is
C6_Witness ==
    /\ pc = "built"
    /\ TheBody = <<"a", "_", " ", "B">>
    /\ IndexedTerms(1) = {<<"b">>}

\* C7: the IDs assigned are 1..N in order of appearance, N the number of
\* records with an identifier; a record without identifier takes no ID and
\* posts nothing; a record with identifier and no or empty body takes an ID
\* and posts nothing; num_documents = N.
C7_ContiguousIds ==
    LET seen == Accepted(SubSeq(docs, 1, doc_pos))
        acc  == Accepted(docs)
        N    == Len(acc)
    IN  /\ DOMAIN doc_id_to_docno = 1..Len(seen)
        /\ doc_num = Len(seen) + 1
        /\ DOMAIN doc_text_map = {d \in 1..Len(seen) : seen[d].has_text}
        /\ \A d \in DOMAIN doc_text_map : doc_text_map[d] = Strip(seen[d].text)
        /\ pc \in {"build", "built"} => (seen = acc /\ num_documents = N)
        /\ pc = "built" =>
              /\ \A t \in DOMAIN index : Range(index[t]) \subseteq 1..N
              /\ \A d \in 1..N :
                    IndexedTerms(d) =
                        IF acc[d].has_text THEN Range(Words(acc[d].text)) ELSE {}
              /\ \A d \in 1..N :
                    (~acc[d].has_text \/ acc[d].text = <<>>) => IndexedTerms(d) = {}

\* a record without identifier, then one without body (ID 1), then one with
\* a body (ID 2)
C7_Witness ==
    /\ pc = "built"
    /\ Len(docs) = 3
    /\ ~docs[1].has_docno
    /\ docs[2].has_docno /\ ~docs[2].has_text
    /\ docs[3].has_docno /\ docs[3].text = <<"a", " ", "B">>
    /\ num_documents = 2
    /\ IndexedTerms(1) = {}
    /\ IndexedTerms(2) = {<<"a">>, <<"b">>}

\* C8: doc_id_to_docno[d] is the identifier of the d-th accepted record;
\* docno_to_doc_id maps an identifier to the largest ID that carries it, so
\* the round trip gives d back unless a later record has the same identifier;
\* doc_id_to_docno keeps an entry for each of those IDs.
C8_RoundTrip ==
    pc \in {"build", "built"} =>
        LET acc == Accepted(docs)
        IN  /\ DOMAIN doc_id_to_docno = 1..Len(acc)
            /\ DOMAIN docno_to_doc_id = Range(doc_id_to_docno)
            /\ \A d \in DOMAIN doc_id_to_docno :
                  LET same == {e \in 1..Len(acc) :
                                  StripDocno(acc[e].docno) = StripDocno(acc[d].docno)}
                  IN  /\ doc_id_to_docno[d] = StripDocno(acc[d].docno)
                      /\ docno_to_doc_id[doc_id_to_docno[d]] = SetMax(same)
                      /\ (docno_to_doc_id[doc_id_to_docno[d]] = d) <=>
                            ~(\E e \in same : e > d)

\* identifiers D1, D2, D1: D1 maps to ID 3, IDs 1 and 3 both name D1
C8_Witness ==
    /\ pc = "built"
    /\ doc_id_to_docno = <<"D1", "D2", "D1">>
    /\ docno_to_doc_id["D1"] = 3
    /\ docno_to_doc_id["D2"] = 2
    /\ \E k \in DOMAIN docs : docs[k].docno = " D1 "

----------------------------------------------------------------------------
(* CollectionStatistics *)

\* lowest and highest document frequency of a moderate term (line 32)
MinFreq == 50

MaxFreq == 200

\* the bound i + 50 of the inner loop (line 41)
Window == 50

Min2(a, b) == IF a <= b THEN a ELSE b

Max2(a, b) == IF a >= b THEN a ELSE b

\* the posting list lo+1, ..., lo+n
Interval(lo, n) == [k \in 1..n |-> lo + k]

\* (term, len(postings), postings) of line 16
Entry(term, postings) ==
    [term |-> term, freq |-> Len(postings), postings |-> postings]

\* sorted(..., key=lambda x: x[1]): ascending by frequency, and stable
RECURSIVE SortByFreq(_)
SortByFreq(list) ==
    IF list = <<>> THEN <<>>
    ELSE LET m == SetMin({list[n].freq : n \in DOMAIN list})
             k == SetMin({n \in DOMAIN list : list[n].freq = m})
         IN  <<list[k]>> \o SortByFreq(SubSeq(list, 1, k - 1) \o SubSeq(list, k + 1, Len(list)))

\* list[start:] with a signed start, as Python slices: a start below 0
\* counts from the end, and -0 is 0
SliceFrom(list, start) ==
    LET from == IF start < 0 THEN Max2(Len(list) + start, 0)
                ELSE Min2(start, Len(list))
    IN  SubSeq(list, from + 1, Len(list))

\* list[:stop] with a signed stop
SliceTo(list, stop) ==
    LET to == IF stop < 0 THEN Max2(Len(list) + stop, 0)
              ELSE Min2(stop, Len(list))
    IN  SubSeq(list, 1, to)

\* list[::-1]
Reverse(list) == [k \in 1..Len(list) |-> list[Len(list) + 1 - k]]

\* [(term, freq) for term, freq, _ in list]
TermFreqPairs(list) == [k \in 1..Len(list) |-> <<list[k].term, list[k].freq>>]

\* lines 20-26
get_terms_by_doc_freq(n, highest) ==
    IF highest
    THEN TermFreqPairs(Reverse(SliceFrom(term_freq_list, 0 - n)))
    ELSE TermFreqPairs(SliceTo(term_freq_list, n))

\* line 32
moderate_terms ==
    SelectSeq(term_freq_list, LAMBDA e : MinFreq <= e.freq /\ e.freq <= MaxFreq)

\* abs(freq1 - freq2) <= max(freq1, freq2) * 0.1 (line 45); for frequencies
\* in MinFreq..MaxFreq the float product compares as the exact tenth does
SimilarFreq(freq1, freq2) ==
    10 * (Max2(freq1, freq2) - Min2(freq1, freq2)) <= Max2(freq1, freq2)

\* an overlap test that wants more than 30%
MoreThanEnoughOverlap(freq1, freq2, overlap) == 10 * overlap > 3 * Min2(freq1, freq2)

\* overlap >= min(freq1, freq2) * 0.3 (line 50); exact for these frequencies
EnoughOverlap(freq1, freq2, overlap) == 10 * overlap >= 3 * Min2(freq1, freq2)

\* set(postings1) & set(postings2) (line 46)
SharedDocs(postings1, postings2) == Range(postings1) \cap Range(postings2)

\* the inner loop (lines 41-52) from index j on; i and j are 0-based.
\* best_overlap is never negative: reading it first makes the evaluator
\* compute the running best at every iteration instead of at the very end.
RECURSIVE InnerLoop(_, _, _, _)
InnerLoop(mod, i, j, best) ==
    IF best.best_overlap < 0 \/ j >= Min2(i + Window, Len(mod)) THEN best
    ELSE LET e1 == mod[i + 1]
             e2 == mod[j + 1]
         IN  IF SimilarFreq(e1.freq, e2.freq)
             THEN LET shared_docs == SharedDocs(e1.postings, e2.postings)
                      overlap     == Cardinality(shared_docs)
                  IN  IF /\ EnoughOverlap(e1.freq, e2.freq, overlap)
                         /\ overlap > best.best_overlap
                      THEN InnerLoop(mod, i, j + 1,
                              [best_overlap |-> overlap,
                               best_pair |->
                                  [found |-> TRUE,
                                   term1 |-> e1.term, freq1 |-> e1.freq,
                                   postings1 |-> e1.postings,
                                   term2 |-> e2.term, freq2 |-> e2.freq,
                                   postings2 |-> e2.postings,
                                   shared_docs |-> shared_docs]])
                      ELSE InnerLoop(mod, i, j + 1, best)
             ELSE InnerLoop(mod, i, j + 1, best)

\* the outer loop (lines 38-52) from index i on
RECURSIVE OuterLoop(_, _, _)
OuterLoop(mod, i, best) ==
    IF best.best_overlap < 0 \/ i >= Len(mod) THEN best
    ELSE OuterLoop(mod, i + 1, InnerLoop(mod, i, i + 1, best))

\* lines 28-54
find_similar_freq_terms_same_docs ==
    OuterLoop(moderate_terms, 0, [best_overlap |-> 0, best_pair |-> NoPair]).best_pair

\* small indexes: up to MaxStatTerms terms t1, t2, ... in dict order, each
\* with a non-empty ascending posting list over 1..MaxStatDocs
SmallItems ==
    UNION {
        {[k \in 1..n |-> [term |-> "t" \o ToString(k), postings |-> ps[k]]] :
            ps \in [1..n -> AscLists(MaxStatDocs) \ {<<>>}]} :
        n \in 0..MaxStatTerms}

\* large indexes, in dict order: term x first, term y at position q, terms
\* u and v last, and between them terms of frequency MinFreq that share no
\* document with any other term.  x and y have frequencies fx and fy and
\* share o documents; u and v have frequency MinFreq and share o2 documents.
LargeItems(len, q, fx, fy, o, o2) ==
    [k \in 1..len |->
        IF k = 1 THEN [term |-> "x", postings |-> Interval(0, fx)]
        ELSE IF k = q THEN [term |-> "y", postings |-> Interval(fx - o, fy)]
        ELSE IF k = len - 1 THEN [term |-> "u", postings |-> Interval(500, MinFreq)]
        ELSE IF k = len THEN [term |-> "v", postings |-> Interval(500 + MinFreq - o2, MinFreq)]
        ELSE [term |-> "f" \o ToString(k), postings |-> Interval(1000 * k, MinFreq)]]

\* the four terms alone, or enough terms to put y at the edge of the window
LargeShapes == {<<4, 2>>, <<Window + 3, Window>>, <<Window + 3, Window + 1>>}

LargeFreqs ==
    {<<MinFreq, MinFreq>>, <<MinFreq, MinFreq + 5>>, <<MinFreq, MinFreq + 6>>,
     <<MinFreq - 1, MinFreq - 1>>, <<MaxFreq, MaxFreq>>, <<MaxFreq + 1, MaxFreq + 1>>}

LargeOverlaps == {14, 15, 59, 60, MaxFreq + 1}

LargeItemsSet ==
    {LargeItems(sh[1], sh[2], fr[1], fr[2], Min2(o, Min2(fr[1], fr[2])), o2) :
        sh \in LargeShapes, fr \in LargeFreqs, o \in LargeOverlaps, o2 \in {0, 15, MinFreq}}

\* the dict self.index.index with the given items
IndexOf(items) ==
    [t \in {items[k].term : k \in DOMAIN items} |->
        items[CHOOSE k \in DOMAIN items : items[k].term = t].postings]

InitStats ==
    /\ pc = "stats_new"
    /\ \E items \in SmallItems \cup LargeItemsSet :
          /\ index = IndexOf(items)
          /\ index_order = [k \in DOMAIN items |-> items[k].term]
    /\ term_freq_list = <<>>
    /\ st_n = 0 /\ st_highest = TRUE /\ st_terms = <<>>
    /\ best_pair = NoPair
    /\ IndexIdle /\ QueryIdle /\ MergeIdle

\* CollectionStatistics.__init__ (lines 11-18)
NewStatistics ==
    /\ pc = "stats_new"
    /\ term_freq_list' =
          SortByFreq([k \in DOMAIN index_order |->
                          Entry(index_order[k], index[index_order[k]])])
    /\ pc' = "stats_ready"
    /\ UNCHANGED <<index, index_order, st_n, st_highest, st_terms, best_pair,
                   indexVars, queryVars, mergeVars>>

\* get_terms_by_doc_freq(n, highest=True)
GetHighestTerms ==
    /\ pc = "stats_ready"
    /\ \E n \in 0..MaxStatN :
          /\ st_n' = n
          /\ st_highest' = TRUE
          /\ st_terms' = get_terms_by_doc_freq(n, TRUE)
    /\ pc' = "stats_terms"
    /\ UNCHANGED <<index, index_order, term_freq_list, best_pair,
                   indexVars, queryVars, mergeVars>>

\* get_terms_by_doc_freq(n, highest=False)
GetLowestTerms ==
    /\ pc = "stats_ready"
    /\ \E n \in 0..MaxStatN :
          /\ st_n' = n
          /\ st_highest' = FALSE
          /\ st_terms' = get_terms_by_doc_freq(n, FALSE)
    /\ pc' = "stats_terms"
    /\ UNCHANGED <<index, index_order, term_freq_list, best_pair,
                   indexVars, queryVars, mergeVars>>

\* find_similar_freq_terms_same_docs()
FindSimilar ==
    /\ pc = "stats_ready"
    /\ best_pair' = find_similar_freq_terms_same_docs
    /\ pc' = "stats_pair"
    /\ UNCHANGED <<index, index_order, term_freq_list, st_n, st_highest, st_terms,
                   indexVars, queryVars, mergeVars>>

NextStats ==
    \/ NewStatistics
    \/ GetHighestTerms
    \/ GetLowestTerms
    \/ FindSimilar

SpecStats == InitStats /\ [][NextStats]_vars

----------------------------------------------------------------------------
(* Properties of CollectionStatistics *)

\* term_freq_list holds every term of the index once, with its frequency and
\* postings, in ascending frequency order
FreqListSorted ==
    /\ \A k \in 1..(Len(term_freq_list) - 1) :
          term_freq_list[k].freq <= term_freq_list[k + 1].freq
    /\ {term_freq_list[k].term : k \in DOMAIN term_freq_list} = DOMAIN index
    /\ Len(term_freq_list) = Cardinality(DOMAIN index)
    /\ \A k \in DOMAIN term_freq_list :
          /\ term_freq_list[k].postings = index[term_freq_list[k].term]
          /\ term_freq_list[k].freq = Len(index[term_freq_list[k].term])

\* the terms with frequency in [MinFreq, MaxFreq], in term_freq_list order
ModerateList ==
    SelectSeq(term_freq_list, LAMBDA e : e.freq \in MinFreq..MaxFreq)

PairOverlap(mod, pr) ==
    Cardinality(Range(mod[pr[1]].postings) \cap Range(mod[pr[2]].postings))

\* the pairs (i, j) of positions in mod, j among the `following` terms after
\* i, whose frequencies differ by at most 10% of the larger and whose overlap
\* is at least 30% of the smaller
QualifyingPairs(mod, following) ==
    {pr \in (1..Len(mod)) \X (1..Len(mod)) :
        /\ pr[1] < pr[2] /\ pr[2] - pr[1] <= following
        /\ LET f1 == mod[pr[1]].freq
               f2 == mod[pr[2]].freq
           IN  /\ 10 * (Max2(f1, f2) - Min2(f1, f2)) <= Max2(f1, f2)
               /\ 10 * PairOverlap(mod, pr) >= 3 * Min2(f1, f2)}

\* the returned pair is a qualifying pair of largest overlap among those
\* compared, and nothing is returned exactly when no compared pair qualifies
SelectsBestPair(following) ==
    LET mod  == ModerateList
        qual == QualifyingPairs(mod, following)
    IN  /\ FreqListSorted
        /\ best_pair.found <=> qual # {}
        /\ best_pair.found =>
              \E pr \in qual :
                  /\ best_pair.term1 = mod[pr[1]].term
                  /\ best_pair.freq1 = mod[pr[1]].freq
                  /\ best_pair.postings1 = mod[pr[1]].postings
                  /\ best_pair.term2 = mod[pr[2]].term
                  /\ best_pair.freq2 = mod[pr[2]].freq
                  /\ best_pair.postings2 = mod[pr[2]].postings
                  /\ best_pair.shared_docs =
                        Range(mod[pr[1]].postings) \cap Range(mod[pr[2]].postings)
                  /\ \A other \in qual : PairOverlap(mod, other) <= PairOverlap(mod, pr)

\* C11 as stated: each term with frequency in [50,200], taken in ascending
\* frequency order, is compared with the 50 terms that follow it; the result
\* is a qualifying pair of maximum intersection, or nothing exactly when no
\* compared pair qualifies.
C11_ComparesFiftyFollowing ==
    pc = "stats_pair" => SelectsBestPair(Window)

\* C11 amended: each such term is compared with the 49 terms that follow it
\* (the window of 50 counts the term itself).
C11_ComparesWindowMinusOne ==
    pc = "stats_pair" => SelectsBestPair(Window - 1)

\* x and y, 49 places apart, share 15 of their 50 documents and are returned
\* in spite of the 52 other terms
C11_Witness ==
    /\ pc = "stats_pair"
    /\ Len(term_freq_list) = Window + 3
    /\ term_freq_list[1].term = "x" /\ term_freq_list[Window].term = "y"
    /\ best_pair.found
    /\ best_pair.term1 = "x" /\ best_pair.term2 = "y"
    /\ Cardinality(best_pair.shared_docs) = 15

\* the terms get_terms_by_doc_freq returned
ReturnedTerms == {st_terms[k][1] : k \in DOMAIN st_terms}

\* C12: get_terms_by_doc_freq(n, highest) returns exactly min(n, T) pairs of
\* distinct terms, each with the length of its posting list; with highest the
\* frequencies do not increase and no omitted term is more frequent than a
\* returned one, without it they do not decrease and no omitted term is less
\* frequent than a returned one.
C12_TopBottomN ==
    pc = "stats_terms" =>
        /\ Len(st_terms) = Min2(st_n, Cardinality(DOMAIN index))
        /\ Cardinality(ReturnedTerms) = Len(st_terms)
        /\ ReturnedTerms \subseteq DOMAIN index
        /\ \A k \in DOMAIN st_terms : st_terms[k][2] = Len(index[st_terms[k][1]])
        /\ \A k \in 1..(Len(st_terms) - 1) :
              IF st_highest THEN st_terms[k][2] >= st_terms[k + 1][2]
              ELSE st_terms[k][2] <= st_terms[k + 1][2]
        /\ \A t \in DOMAIN index \ ReturnedTerms : \A k \in DOMAIN st_terms :
              IF st_highest THEN Len(index[t]) <= st_terms[k][2]
              ELSE Len(index[t]) >= st_terms[k][2]

====
